---- MODULE Spec2Model ----
(***************************************************************************)
(* Model of main.py, the mbl.is scraper.  One run of scrape_articles is    *)
(* load_done_urls, get_article_links (pagination), the filter against the  *)
(* resume set, the max_articles slice and the per-article loop that        *)
(* appends records to articles.txt and markers to scraped_urls.txt.        *)
(*                                                                         *)
(* The renderer is the environment: what a results page and an article     *)
(* page hold, and whether a fetch raises, is chosen anew at every fetch.   *)
(*                                                                         *)
(* Files.  doneFile and outFile are the two files on disk.  done_f is      *)
(* flushed after every marker, so doneBuf holds at most the marker between *)
(* done_f.write and done_f.flush.  f is never flushed inside the loop:     *)
(* outBuf is everything the run has written to f, of which the io layer    *)
(* has pushed some prefix to the disk (whenever a write filled its         *)
(* buffer); the prefix shows when the process is killed, and close() puts  *)
(* all of it on disk.  Writes to the two files are taken not to fail.      *)
(*                                                                         *)
(* The process can be killed at any point of a run (Kill); its memory is   *)
(* gone then.  Variables of a returned function are reset once nothing     *)
(* reads them any more.                                                    *)
(***************************************************************************)
EXTENDS Integers, Sequences, FiniteSets, TLC

\* ---------------------------------------------------------------- bounds
MaxLinks == 2           \* new links the site serves over all searches
MaxPageLinks == 2       \* links one search results page can carry

\* ------------------------------------------------------ program constants
PAGE_SIZE == 20         \* limit=20 in SEARCH_BASE_URL, offset += 20

\* The hrefs the site can serve.  All of them pass the link filter of the
\* results page (section path followed by a /dddd/ segment).
URLS == {"u1", "u2", "u3"}

\* The inputs the operator can type at the "Max articles" prompt.
MaxArticlesInputs == {-1, 0, 1, 2}

\* ---------------------------------------------------------------- helpers
Range(s) == {s[k] : k \in DOMAIN s}

Min(a, b) == IF a < b THEN a ELSE b

Max(a, b) == IF a > b THEN a ELSE b

\* Python's seq[:n] for any integer n.
SliceTo(s, n) ==
    IF n >= 0 THEN SubSeq(s, 1, Min(n, Len(s)))
              ELSE SubSeq(s, 1, Max(Len(s) + n, 0))

\* Sequences over S of length at most n.
SeqsUpTo(S, n) == UNION {[1..k -> S] : k \in 0..n}

VARIABLES
    pc,            \* position of the process
    max_articles,  \* the operator's limit for the current run
    done_urls,     \* the set loaded by load_done_urls
    all_links,     \* get_article_links: accumulated links
    seen_hrefs,    \* get_article_links: hrefs seen in this discovery
    offset,        \* get_article_links: offset of the next page
    articles,      \* result of get_article_links
    remaining,     \* articles not in done_urls
    to_scrape,     \* the work list
    total,         \* len(to_scrape)
    i,             \* index of the current candidate in to_scrape (1-based)
    title_text,    \* scrape_article: heading of the page, kept until the
                   \* orchestrator has acted on the result
    meta_date,     \* scrape_article: contents of the publish-time meta
                   \* elements of the page, kept likewise
    date,          \* date returned by the last scrape_article
    body,          \* body returned by the last scrape_article
    scraped,       \* number of articles saved by this run
    attempted,     \* urls printed by "Scraping i/total: url"
    outcomes,      \* per attempt: the "-> Saved/Blocked/Error" line printed
    outFile,       \* articles.txt on disk when f was opened
    outBuf,        \* what the run has written to f since
    doneFile,      \* scraped_urls.txt on disk
    doneBuf,       \* data written to done_f and not yet on disk
    written,       \* history: urls whose record was written to f, ever
    orphans,       \* history: urls in flight between the write to f and the
                   \* flush of their marker when a run was killed
    prevArticles,  \* history: discovery result of the previous run
    rerun,         \* history: this run has the limit and (once its
                   \* discovery has returned) the discovery result of the
                   \* previous run
    served,        \* history: new links served so far, over all runs
    pages          \* history: the fetches of the current discovery, in fetch
                   \* order, kept until the work list is built

vars == <<pc, max_articles, done_urls, all_links, seen_hrefs, offset,
          articles, remaining, to_scrape, total, i, title_text, meta_date,
          date, body, scraped, attempted, outcomes, outFile, outBuf, doneFile, doneBuf,
          written, orphans, prevArticles, rerun, served, pages>>

disc == <<all_links, seen_hrefs, offset>>
work == <<articles, remaining, to_scrape, total>>
page == <<title_text, meta_date, date, body>>
files == <<outFile, outBuf, doneFile, doneBuf>>
hist == <<written, orphans, prevArticles, rerun, served, pages>>

\* ----------------------------------------------------------- ResumeStore
\* load_done_urls that finds no file.
load_done_urls_Empty == {}

\* load_done_urls: the stripped non-empty lines of scraped_urls.txt.  Every
\* line of the file is an href written by the commit, and an href carries
\* no surrounding whitespace, so strip() leaves it as it is.
load_done_urls == {doneFile[k] : k \in DOMAIN doneFile}

\* ---------------------------------------------------------- LinkDiscoverer
\* One fetch of get_article_links: the offset in the search URL, the links
\* of the page that were new and whether the page has a span.next.
Fetched(off, new, has_next) == [offset |-> off, new |-> new, has_next |-> has_next]

\* What one results page can return: the filtered anchors, in page order
\* (an href may repeat on a page and across pages).
PageLinks == SeqsUpTo(URLS, MaxPageLinks)

\* NewLinks without the seen-set test: every link of the page is appended.
NewLinks_NoDedup(links, seen) == links

\* The links of a page that are not in seen, first occurrence only, in order.
RECURSIVE NewLinks(_, _)
NewLinks(links, seen) ==
    IF links = <<>> THEN <<>>
    ELSE IF Head(links) \in seen THEN NewLinks(Tail(links), seen)
    ELSE <<Head(links)>> \o NewLinks(Tail(links), seen \cup {Head(links)})

\* -------------------------------------------------------- ContentExtractor
None == <<>>            \* Python None for date and body (neither is ever "")
NoTitle == "<no h1>"    \* title_text = None

\* inner_text() of the h1 as rendered, and its strip().
RawTitles == {"Just a moment...", " Just a moment...\n", "www.mbl.is", "", "Frett"}

Strip(t) == IF t = " Just a moment...\n" THEN "Just a moment..." ELSE t

Blocked(title) == title \in {NoTitle, "www.mbl.is", "Just a moment..."}

\* A text that a date pattern is matched against: whether the pattern
\* matches, and the digit groups (year, month, day) it captures.
NoMatch == [match |-> FALSE, y |-> <<>>, m |-> <<>>, d |-> <<>>]

Stamp(y, m, d) == [match |-> TRUE, y |-> y, m |-> m, d |-> d]

\* The texts of the model that the date patterns match.
Y2025 == <<"2", "0", "2", "5">>

Y2024 == <<"2", "0", "2", "4">>

\* A meta element without content attribute.
NullContent == [null |-> TRUE, re |-> NoMatch]

\* re.search(r"/(\d{4})/(\d{2})/(\d{2})/", url) for the hrefs of the model:
\* u1 and u3 are .../2025/05/28/..., u2 has a year segment only.
UrlDate(url) ==
    IF url \in {"u1", "u3"} THEN Stamp(Y2025, <<"0", "5">>, <<"2", "8">>) ELSE NoMatch

\* re.match(r"(\d{4})-(\d{2})-(\d{2})", content) for the publish time the
\* article page of url states: "2024-12-01T23:59:00+0000" on the page of u1
\* (not the day in its URL), "2025-05-28T08:36:00+0000" on the others.
PublishTime(url) ==
    IF url = "u1" THEN Stamp(Y2024, <<"1", "2">>, <<"0", "1">>)
    ELSE Stamp(Y2025, <<"0", "5">>, <<"2", "8">>)

\* Content attributes of the cXenseParse:publishtime meta elements of the
\* page of url: no element, an element without content, a content that is
\* no timestamp, the publish time.  The page of u1 always states its
\* publish time.
MetaLists(url) ==
    IF url = "u1" THEN { <<[null |-> FALSE, re |-> PublishTime(url)]>> }
    ELSE { <<>>,
           <<NullContent>>,
           <<[null |-> FALSE, re |-> NoMatch]>>,
           <<[null |-> FALSE, re |-> PublishTime(url)]>> }

\* The decimal digits, Digits[k + 1] being the digit of k.
Digits == <<"0", "1", "2", "3", "4", "5", "6", "7", "8", "9">>

DigitVal(c) == (CHOOSE k \in DOMAIN Digits : Digits[k] = c) - 1

\* int() of a two-digit group.
ToInt(ds) == DigitVal(ds[1]) * 10 + DigitVal(ds[2])

\* str() of an int below 100, as an f-string formats it.
ToStr(n) ==
    IF n < 10 THEN <<Digits[n + 1]>>
    ELSE <<Digits[(n \div 10) + 1], Digits[(n % 10) + 1]>>

\* FormatDate that copies the groups as they are.
FormatDate_Padded(m) == m.d \o <<".">> \o m.m \o <<".">> \o m.y

\* f"{int(m.group(3))}.{int(m.group(2))}.{m.group(1)}"
FormatDate(m) == ToStr(ToInt(m.d)) \o <<".">> \o ToStr(ToInt(m.m)) \o <<".">> \o m.y

ExtractDate(metas, url) ==
    LET fromMeta == IF metas # <<>> /\ ~metas[1].null /\ metas[1].re.match
                    THEN FormatDate(metas[1].re) ELSE None
    IN  IF fromMeta # None THEN fromMeta
        ELSE IF UrlDate(url).match THEN FormatDate(UrlDate(url)) ELSE None

\* Trimmed non-empty paragraph texts of ".main-layout p" and of
\* ".frett-container p, article p".
MainParas == {<<>>, <<"m1", "m2">>}

FallbackParas == {<<>>, <<"f1">>}

\* "\n\n".join(paragraphs): the paragraphs with the separator between them.
RECURSIVE Join(_)
Join(paragraphs) ==
    IF Len(paragraphs) <= 1 THEN paragraphs
    ELSE <<Head(paragraphs), "\n\n">> \o Join(Tail(paragraphs))

ExtractBody(main, fallback) ==
    LET first == IF main # <<>> THEN Join(main) ELSE None
    IN  IF first # None THEN first
        ELSE IF fallback # <<>> THEN Join(fallback) ELSE None

\* -------------------------------------------------------- CrawlOrchestrator
\* Remaining without the filter.
Remaining_NoFilter(arts, done) == arts

Remaining(arts, done) == SelectSeq(arts, LAMBDA a : a \notin done)

\* ToScrape with a slice that is one too long.
ToScrape_OffByOne(rem, max) == IF max = 0 THEN rem ELSE SliceTo(rem, max + 1)

ToScrape(rem, max) == IF max = 0 THEN rem ELSE SliceTo(rem, max)

\* The lines f.write puts into the output file for one article.
Item(url, kind, text) == [url |-> url, kind |-> kind, text |-> text]

Record(url, d, b) ==
    (IF d # None THEN <<Item(url, "date", d)>> ELSE <<>>)
    \o <<Item(url, IF b # None THEN "body" ELSE "placeholder", b)>>
    \o <<Item(url, "sep", <<>>)>>

\* ------------------------------------------------------------------- state
Init ==
    /\ pc = "idle"
    /\ max_articles = 0
    /\ done_urls = {}
    /\ all_links = <<>>
    /\ seen_hrefs = {}
    /\ offset = 0
    /\ articles = <<>>
    /\ remaining = <<>>
    /\ to_scrape = <<>>
    /\ total = 0
    /\ i = 0
    /\ title_text = NoTitle
    /\ meta_date = <<>>
    /\ date = None
    /\ body = None
    /\ scraped = 0
    /\ attempted = <<>>
    /\ outcomes = <<>>
    /\ outFile = <<>>
    /\ outBuf = <<>>
    /\ doneFile = <<>>
    /\ doneBuf = <<>>
    /\ written = {}
    /\ orphans = {}
    /\ prevArticles = <<>>
    /\ rerun = FALSE
    /\ served = 0
    /\ pages = <<>>

\* The url of the candidate the loop is at.
url == to_scrape[i]

Running == pc \notin {"idle", "done", "killed", "aborted"}

\* failed = total - scraped, as the summary line prints it.
failed == total - scraped

\* __main__ and scrape_articles up to the search: read the operator's
\* limit, load the resume set, launch the browser.
StartRun ==
    /\ ~Running
    /\ served < MaxLinks
    /\ \E n \in MaxArticlesInputs :
          /\ max_articles' = n
          /\ rerun' = (n = max_articles)
    /\ done_urls' = load_done_urls
    /\ all_links' = <<>>
    /\ seen_hrefs' = {}
    /\ offset' = 0
    /\ articles' = <<>>
    /\ remaining' = <<>>
    /\ to_scrape' = <<>>
    /\ total' = 0
    /\ i' = 0
    /\ title_text' = NoTitle
    /\ meta_date' = <<>>
    /\ date' = None
    /\ body' = None
    /\ scraped' = 0
    /\ attempted' = <<>>
    /\ outcomes' = <<>>
    /\ prevArticles' = articles
    /\ pages' = <<>>
    /\ pc' = "discover"
    /\ UNCHANGED <<files, written, orphans, served>>

\* FetchPage that breaks only when the page has no span.next.
FetchPage_NoZeroNewBreak ==
    /\ pc = "discover"
    /\ \E links \in PageLinks, has_next \in BOOLEAN :
          LET new == NewLinks(links, seen_hrefs)
              new_count == Len(new)
          IN  /\ served + new_count <= MaxLinks
              /\ served' = served + new_count
              /\ pages' = Append(pages, Fetched(offset, new, has_next))
              /\ IF ~has_next
                 THEN /\ articles' = all_links \o new
                      /\ rerun' = (rerun /\ all_links \o new = prevArticles)
                      /\ prevArticles' = <<>>
                      /\ all_links' = <<>>
                      /\ seen_hrefs' = {}
                      /\ offset' = 0
                      /\ pc' = "filter"
                 ELSE /\ all_links' = all_links \o new
                      /\ seen_hrefs' = seen_hrefs \cup Range(new)
                      /\ offset' = offset + PAGE_SIZE
                      /\ UNCHANGED <<articles, rerun, prevArticles>>
                      /\ pc' = "discover"
    /\ UNCHANGED <<max_articles, done_urls, remaining, to_scrape, total,
                   i, page, scraped, attempted, outcomes, files, written,
                   orphans>>

\* FetchPage that never adds to seen_hrefs: a link served again counts as
\* new again.
FetchPage_ForgetSeen ==
    /\ pc = "discover"
    /\ \E links \in PageLinks, has_next \in BOOLEAN :
          LET new == NewLinks(links, seen_hrefs)
              new_count == Len(new)
          IN  /\ served + new_count <= MaxLinks
              /\ served' = served + new_count
              /\ pages' = Append(pages, Fetched(offset, new, has_next))
              /\ IF ~has_next \/ new_count = 0
                 THEN /\ articles' = all_links \o new
                      /\ rerun' = (rerun /\ all_links \o new = prevArticles)
                      /\ prevArticles' = <<>>
                      /\ all_links' = <<>>
                      /\ seen_hrefs' = {}
                      /\ offset' = 0
                      /\ pc' = "filter"
                 ELSE /\ all_links' = all_links \o new
                      /\ seen_hrefs' = seen_hrefs
                      /\ offset' = offset + PAGE_SIZE
                      /\ UNCHANGED <<articles, rerun, prevArticles>>
                      /\ pc' = "discover"
    /\ UNCHANGED <<max_articles, done_urls, remaining, to_scrape, total,
                   i, page, scraped, attempted, outcomes, files, written,
                   orphans>>

\* get_article_links: one pass of the while loop (fetch a page, add its new
\* links, break and return or go on to the next offset).
FetchPage ==
    /\ pc = "discover"
    /\ \E links \in PageLinks, has_next \in BOOLEAN :
          LET new == NewLinks(links, seen_hrefs)
              new_count == Len(new)
          IN  /\ served + new_count <= MaxLinks
              /\ served' = served + new_count
              /\ pages' = Append(pages, Fetched(offset, new, has_next))
              /\ IF ~has_next \/ new_count = 0
                 THEN /\ articles' = all_links \o new
                      /\ rerun' = (rerun /\ all_links \o new = prevArticles)
                      /\ prevArticles' = <<>>
                      /\ all_links' = <<>>
                      /\ seen_hrefs' = {}
                      /\ offset' = 0
                      /\ pc' = "filter"
                 ELSE /\ all_links' = all_links \o new
                      /\ seen_hrefs' = seen_hrefs \cup Range(new)
                      /\ offset' = offset + PAGE_SIZE
                      /\ UNCHANGED <<articles, rerun, prevArticles>>
                      /\ pc' = "discover"
    /\ UNCHANGED <<max_articles, done_urls, remaining, to_scrape, total,
                   i, page, scraped, attempted, outcomes, files, written,
                   orphans>>

\* DiscoveryFault for a search inside the try of the loop: the fault is
\* printed, the links found so far are dropped and the run goes on.
DiscoveryFault_Recovered ==
    /\ pc = "discover"
    /\ all_links' = <<>>
    /\ seen_hrefs' = {}
    /\ offset' = 0
    /\ prevArticles' = <<>>
    /\ rerun' = FALSE
    /\ pages' = <<>>
    /\ outcomes' = Append(outcomes, "error")
    /\ pc' = "loop"
    /\ UNCHANGED <<max_articles, done_urls, work, i, page, scraped, attempted,
                   files, written, orphans, served>>

\* A fault of the renderer during the search: nothing catches it, the
\* process ends with the traceback before either file is opened.
DiscoveryFault ==
    /\ pc = "discover"
    /\ max_articles' = 0
    /\ done_urls' = {}
    /\ all_links' = <<>>
    /\ seen_hrefs' = {}
    /\ offset' = 0
    /\ prevArticles' = <<>>
    /\ rerun' = FALSE
    /\ pages' = <<>>
    /\ pc' = "aborted"
    /\ UNCHANGED <<work, i, page, scraped, attempted, outcomes, files,
                   written, orphans, served>>

\* Filter that takes the work list from the discovery result.
Filter_FromArticles ==
    /\ pc = "filter"
    /\ remaining' = Remaining(articles, done_urls)
    /\ to_scrape' = ToScrape(articles, max_articles)
    /\ total' = Len(ToScrape(articles, max_articles))
    /\ i' = 0
    /\ pages' = <<>>
    /\ pc' = "loop"
    /\ UNCHANGED <<max_articles, done_urls, disc, articles, page, scraped,
                   attempted, outcomes, files, written, orphans,
                   prevArticles, rerun, served>>

\* scrape_articles: filter, slice, count, open both files for append.
Filter ==
    /\ pc = "filter"
    /\ remaining' = Remaining(articles, done_urls)
    /\ to_scrape' = ToScrape(Remaining(articles, done_urls), max_articles)
    /\ total' = Len(ToScrape(Remaining(articles, done_urls), max_articles))
    /\ i' = 0
    /\ pages' = <<>>
    /\ pc' = "loop"
    /\ UNCHANGED <<max_articles, done_urls, disc, articles, page, scraped,
                   attempted, outcomes, files, written, orphans,
                   prevArticles, rerun, served>>

\* for i, article in enumerate(to_scrape, 1): the next candidate.
NextCandidate ==
    /\ pc = "loop"
    /\ i < Len(to_scrape)
    /\ i' = i + 1
    /\ attempted' = Append(attempted, to_scrape[i + 1])
    /\ title_text' = NoTitle
    /\ meta_date' = <<>>
    /\ date' = None
    /\ body' = None
    /\ pc' = "scrape"
    /\ UNCHANGED <<max_articles, done_urls, disc, work, scraped, outcomes,
                   files, hist>>

\* Finish for an output file opened with mode "w": the file holds what this
\* run wrote and nothing else.
Finish_Rewrite ==
    /\ pc = "loop"
    /\ i >= Len(to_scrape)
    /\ outFile' = outBuf
    /\ outBuf' = <<>>
    /\ doneFile' = doneFile \o doneBuf
    /\ doneBuf' = <<>>
    /\ title_text' = NoTitle
    /\ meta_date' = <<>>
    /\ date' = None
    /\ body' = None
    /\ pc' = "done"
    /\ UNCHANGED <<max_articles, done_urls, disc, work, i, scraped,
                   attempted, outcomes, hist>>

\* The loop is exhausted: both with-blocks close their files (which writes
\* out what f still buffers), the summary is printed.
Finish ==
    /\ pc = "loop"
    /\ i >= Len(to_scrape)
    /\ outFile' = outFile \o outBuf
    /\ outBuf' = <<>>
    /\ doneFile' = doneFile \o doneBuf
    /\ doneBuf' = <<>>
    /\ title_text' = NoTitle
    /\ meta_date' = <<>>
    /\ date' = None
    /\ body' = None
    /\ pc' = "done"
    /\ UNCHANGED <<max_articles, done_urls, disc, work, i, scraped,
                   attempted, outcomes, hist>>

\* scrape_article returns: (None, None) for a challenge page, before it
\* reads anything else of the page, else the date and the body it found.
ScrapeArticle ==
    /\ pc = "scrape"
    /\ \E h1 \in RawTitles \cup {NoTitle} :
          LET t == IF h1 = NoTitle THEN NoTitle ELSE Strip(h1)
          IN  /\ title_text' = t
              /\ IF Blocked(t)
                 THEN meta_date' = <<>> /\ date' = None /\ body' = None
                 ELSE \E md \in MetaLists(url), main \in MainParas,
                         fallback \in FallbackParas :
                         /\ meta_date' = md
                         /\ date' = ExtractDate(md, url)
                         /\ body' = ExtractBody(main, fallback)
    /\ pc' = "check"
    /\ UNCHANGED <<max_articles, done_urls, disc, work, i, scraped,
                   attempted, outcomes, files, hist>>

\* ScrapeFault without the try: the fault leaves the loop, the with-blocks
\* close the files and the run is over.
ScrapeFault_Abort ==
    /\ pc = "scrape"
    /\ outcomes' = Append(outcomes, "error")
    /\ outFile' = outFile \o outBuf
    /\ outBuf' = <<>>
    /\ pc' = "done"
    /\ UNCHANGED <<max_articles, done_urls, disc, work, i, page, scraped,
                   attempted, doneFile, doneBuf, hist>>

\* ScrapeFault after a date line has gone to f.
ScrapeFault_PartialWrite ==
    /\ pc = "scrape"
    /\ outcomes' = Append(outcomes, "error")
    /\ outBuf' = Append(outBuf, Item(url, "date", None))
    /\ pc' = "loop"
    /\ UNCHANGED <<max_articles, done_urls, disc, work, i, page, scraped,
                   attempted, outFile, doneFile, doneBuf, hist>>

\* scrape_article raises: except Exception prints the error, the loop goes on.
ScrapeFault ==
    /\ pc = "scrape"
    /\ outcomes' = Append(outcomes, "error")
    /\ pc' = "loop"
    /\ UNCHANGED <<max_articles, done_urls, disc, work, i, page, scraped,
                   attempted, files, hist>>

\* BlockedSkip that marks the url done before it continues.
BlockedSkip_Commit ==
    /\ pc = "check"
    /\ date = None /\ body = None
    /\ outcomes' = Append(outcomes, "blocked")
    /\ doneFile' = Append(doneFile, url)
    /\ pc' = "loop"
    /\ UNCHANGED <<max_articles, done_urls, disc, work, i, page, scraped,
                   attempted, outFile, outBuf, doneBuf, hist>>

\* BlockedSkip that tries the blocked candidate again at once.
BlockedSkip_Retry ==
    /\ pc = "check"
    /\ date = None /\ body = None
    /\ outcomes' = Append(outcomes, "blocked")
    /\ attempted' = Append(attempted, url)
    /\ pc' = "scrape"
    /\ UNCHANGED <<max_articles, done_urls, disc, work, i, page, scraped,
                   files, hist>>

\* if date is None and body is None: ... continue
BlockedSkip ==
    /\ pc = "check"
    /\ date = None /\ body = None
    /\ outcomes' = Append(outcomes, "blocked")
    /\ pc' = "loop"
    /\ UNCHANGED <<max_articles, done_urls, disc, work, i, page, scraped,
                   attempted, files, hist>>

\* WriteRecord with the two files swapped: the marker is written and
\* flushed first.
WriteRecord_MarkerFirst ==
    /\ pc = "check"
    /\ ~(date = None /\ body = None)
    /\ doneFile' = Append(doneFile, url)
    /\ pc' = "commit"
    /\ UNCHANGED <<max_articles, done_urls, disc, work, i, page, scraped,
                   attempted, outcomes, outFile, outBuf, doneBuf, hist>>

\* The three f.write calls.  f is buffered and never flushed inside the
\* loop: outBuf is what this run has written to f, and some prefix of it,
\* known only when the process dies, has been pushed to the disk by writes
\* that filled the buffer.
WriteRecord ==
    /\ pc = "check"
    /\ ~(date = None /\ body = None)
    /\ outBuf' = outBuf \o Record(url, date, body)
    /\ written' = written \cup {url}
    /\ title_text' = NoTitle
    /\ meta_date' = <<>>
    /\ pc' = "commit"
    /\ UNCHANGED <<max_articles, done_urls, disc, work, i, date, body, scraped,
                   attempted, outcomes, outFile, doneFile, doneBuf, orphans,
                   prevArticles, rerun, served, pages>>

\* done_f.write(url + "\n")
CommitWrite ==
    /\ pc = "commit"
    /\ doneBuf' = Append(doneBuf, url)
    /\ pc' = "flush"
    /\ UNCHANGED <<max_articles, done_urls, disc, work, i, page, scraped,
                   attempted, outcomes, outFile, outBuf, doneFile, hist>>

\* CommitFlush without the flush: the marker stays in the buffer of done_f.
CommitFlush_NoFlush ==
    /\ pc = "flush"
    /\ pc' = "count"
    /\ UNCHANGED <<max_articles, done_urls, disc, work, i, page, scraped,
                   attempted, outcomes, files, hist>>

\* done_f.flush()
CommitFlush ==
    /\ pc = "flush"
    /\ doneFile' = doneFile \o doneBuf
    /\ doneBuf' = <<>>
    /\ pc' = "count"
    /\ UNCHANGED <<max_articles, done_urls, disc, work, i, page, scraped,
                   attempted, outcomes, outFile, outBuf, hist>>

\* CountSaved without the increment.
CountSaved_NoCount ==
    /\ pc = "count"
    /\ outcomes' = Append(outcomes, "saved")
    /\ title_text' = NoTitle
    /\ meta_date' = <<>>
    /\ date' = None
    /\ body' = None
    /\ pc' = "loop"
    /\ UNCHANGED <<max_articles, done_urls, disc, work, i, scraped,
                   attempted, files, hist>>

\* scraped += 1 and the "-> Saved" line.
CountSaved ==
    /\ pc = "count"
    /\ scraped' = scraped + 1
    /\ outcomes' = Append(outcomes, "saved")
    /\ title_text' = NoTitle
    /\ meta_date' = <<>>
    /\ date' = None
    /\ body' = None
    /\ pc' = "loop"
    /\ UNCHANGED <<max_articles, done_urls, disc, work, i,
                   attempted, files, hist>>

\* The process is killed: its memory and what the file objects still
\* buffer are lost, the files keep what has reached the disk (any prefix of
\* the writes to f, every flushed marker).
Kill ==
    /\ Running
    /\ \E k \in 0..Len(outBuf) : outFile' = outFile \o SubSeq(outBuf, 1, k)
    /\ outBuf' = <<>>
    /\ doneBuf' = <<>>
    /\ orphans' = IF pc \in {"commit", "flush"} THEN orphans \cup {url} ELSE orphans
    /\ max_articles' = 0
    /\ prevArticles' = <<>>
    /\ rerun' = FALSE
    /\ done_urls' = {}
    /\ all_links' = <<>>
    /\ seen_hrefs' = {}
    /\ offset' = 0
    /\ articles' = <<>>
    /\ remaining' = <<>>
    /\ to_scrape' = <<>>
    /\ total' = 0
    /\ i' = 0
    /\ title_text' = NoTitle
    /\ meta_date' = <<>>
    /\ date' = None
    /\ body' = None
    /\ scraped' = 0
    /\ attempted' = <<>>
    /\ outcomes' = <<>>
    /\ pages' = <<>>
    /\ pc' = "killed"
    /\ UNCHANGED <<doneFile, written, served>>

Next ==
    \/ StartRun
    \/ FetchPage
    \/ DiscoveryFault
    \/ Filter
    \/ NextCandidate
    \/ Finish
    \/ ScrapeArticle
    \/ ScrapeFault
    \/ BlockedSkip
    \/ WriteRecord
    \/ CommitWrite
    \/ CommitFlush
    \/ CountSaved
    \/ Kill

Spec == Init /\ [][Next]_vars

\* ------------------------------------------------------------------ claims
\* The run has its work list.
PostFilter == pc \in {"loop", "scrape", "check", "commit", "flush", "count", "done"}

\* The candidate at hand is between the write of its record to f and the
\* flush of its marker.
InFlight(u) == pc \in {"commit", "flush"} /\ url = u

\* log holds the body line (or the placeholder line) of a record of u.
HasRecord(log, u) ==
    \E k \in DOMAIN log : log[k].url = u /\ log[k].kind \in {"body", "placeholder"}

\* C1 as stated: in every reachable state a url is in the resume log if and
\* only if a record for it was written to the output log.
C1_ResumeIffWritten ==
    \A u \in URLS : u \in Range(doneFile) <=> u \in written

\* C1 amended: a url is in the resume log only if a record for it was
\* written to the output file before, and a url with a written record is in
\* the resume log unless it is the candidate between its output write and
\* the flush of its marker, or a run was killed while it was.
C1_ResumeOnlyIfWritten ==
    \A u \in URLS :
        /\ u \in Range(doneFile) \cup Range(doneBuf) => u \in written
        /\ u \in written /\ u \notin Range(doneFile) => InFlight(u) \/ u \in orphans

\* C1 witness: a run is over, one url is committed with its record on disk,
\* another was never written.
C1_Witness ==
    /\ pc = "done"
    /\ \E u \in URLS : u \in Range(doneFile) /\ u \in written /\ HasRecord(outFile, u)
    /\ \E u \in Range(articles) : u \notin written /\ u \notin Range(doneFile)

\* C2 as stated: when the process has been killed, every url whose marker
\* is in the resume log on disk has its record in the output log on disk.
C2_KillKeepsCommittedRecords ==
    pc = "killed" => \A u \in Range(doneFile) : HasRecord(outFile, u)

\* C3 as stated: after scrape_article returned for an accessible page
\* without body, the next step of the run writes the placeholder record
\* for the url and goes on to the commit, with or without a date.
C3_NoBodyStillCommitted ==
    [][(pc = "check" /\ ~Blocked(title_text) /\ body = None /\ pc' # "killed")
         => /\ pc' = "commit"
            /\ \E k \in DOMAIN outBuf' :
                  outBuf'[k] = Item(url, "placeholder", None)]_vars

\* C4: a candidate whose heading is absent or a placeholder title gets no
\* record and no marker, the files and the write history stay as they are,
\* and the run is back at the loop head for the next candidate.
C4_BlockedSkipped ==
    [][(pc = "check" /\ Blocked(title_text) /\ pc' # "killed")
         => /\ pc' = "loop"
            /\ i' = i
            /\ to_scrape' = to_scrape
            /\ outcomes' = Append(outcomes, "blocked")
            /\ UNCHANGED <<outFile, outBuf, doneFile, doneBuf, written>>]_vars

\* C4 witness: the first of two candidates was a challenge page and was
\* skipped, the second is still to come.
C4_Witness ==
    /\ pc = "loop"
    /\ i = 1 /\ Len(to_scrape) = 2
    /\ outcomes = <<"blocked">>
    /\ title_text = "Just a moment..."
    /\ doneFile = <<>> /\ outBuf = <<>>

\* C5: a candidate whose extraction raised is not in the resume log, and a
\* finished run has attempted every candidate of its work list.
C5_FaultIsolated ==
    /\ \A k \in DOMAIN outcomes :
          outcomes[k] = "error" => attempted[k] \notin Range(doneFile) \cup Range(doneBuf)
    /\ pc = "done" => attempted = to_scrape /\ Len(outcomes) = Len(to_scrape)

\* C5 witness: the first candidate raised, the second was saved.
C5_Witness ==
    /\ pc = "done"
    /\ outcomes = <<"error", "saved">>
    /\ doneFile = <<to_scrape[2]>>
\* C6: with max_articles = N > 0 and more than N candidates outside the
\* resume set, the run attempts the first candidates outside the resume
\* set in discovery order, never more than N of them, and exactly N when it
\* is over, whatever the outcome of each attempt.
C6_BoundedRun ==
    LET eligible == SelectSeq(articles, LAMBDA a : a \notin done_urls)
    IN  (PostFilter /\ max_articles > 0 /\ Len(eligible) > max_articles)
           => /\ Len(attempted) <= max_articles
              /\ attempted = SubSeq(eligible, 1, Len(attempted))
              /\ pc = "done" => Len(attempted) = max_articles

\* C6 witness: N = 1, two eligible candidates, the run is over after one
\* attempt, which was blocked.
C6_Witness ==
    /\ pc = "done"
    /\ max_articles = 1
    /\ Len(remaining) = 2
    /\ attempted = <<remaining[1]>>
    /\ outcomes = <<"blocked">>

\* C7 as stated: the work list is the first max_articles remaining
\* candidates when max_articles > 0 and all of them for every other value.
C7_TruncateOnlyIfPositive ==
    PostFilter =>
        to_scrape = IF max_articles > 0
                    THEN SubSeq(remaining, 1, Min(max_articles, Len(remaining)))
                    ELSE remaining

\* C8 as stated, for runs without limit: a run that repeats the previous
\* run (max_articles = 0 both times, the same discovery result) commits
\* nothing.
C8_SecondRunCommitsNothing ==
    (PostFilter /\ rerun /\ articles # <<>> /\ max_articles = 0)
        => scraped = 0 /\ doneBuf = <<>> /\ Range(doneFile) = done_urls

\* C8 amended: a run that repeats the previous run (the same limit, the
\* same discovery result), every candidate being in the resume log the run
\* loaded, has an empty work list and writes nothing to either file.
C8_IdempotentResume ==
    (PostFilter /\ rerun /\ Range(articles) \subseteq done_urls)
        => /\ to_scrape = <<>>
           /\ scraped = 0
           /\ outBuf = <<>> /\ doneBuf = <<>>
           /\ Range(doneFile) = done_urls

\* C8 witness: the second run over the same non-empty discovery result is
\* over, all its candidates were resumed.
C8_Witness ==
    /\ pc = "done"
    /\ rerun /\ articles # <<>>
    /\ Range(articles) \subseteq done_urls

IsPrefix(a, b) == Len(a) <= Len(b) /\ SubSeq(b, 1, Len(a)) = a

\* C9: every step keeps the resume log as a prefix of what it becomes, the
\* work list a run builds holds no url of the resume log, and no candidate
\* handed to the extraction is in the resume log.
C9_CommittedNeverReselected ==
    [][/\ IsPrefix(doneFile, doneFile')
       /\ (pc = "filter" /\ pc' = "loop")
             => Range(to_scrape') \cap Range(doneFile') = {}
       /\ pc' = "scrape" => to_scrape'[i'] \notin Range(doneFile')]_vars

\* C9 witness: a run is over whose discovery returned a url committed by an
\* earlier run; the url was not in the work list.
C9_Witness ==
    /\ pc = "done"
    /\ \E u \in Range(articles) :
          u \in done_urls /\ u \notin Range(to_scrape) /\ u \in Range(doneFile)

\* C10: a kill during the work on a candidate leaves the resume log on disk
\* as it is; the log lacks the candidate when the kill comes before the
\* flush of its marker (before or after the output write) and holds it when
\* the kill comes after the flush.  A url whose run was killed between
\* output write and flush, and which is still not in the resume log, is
\* not in the set the next run loads and is in the remaining list of a run
\* that discovers it (in the work list when max_articles = 0).
C10_CommitAtomicUnderKill ==
    [][/\ (pc' = "killed" /\ pc \in {"scrape", "check", "commit", "flush", "count"})
             => /\ doneFile' = doneFile
                /\ pc \in {"scrape", "check", "commit", "flush"}
                      => url \notin Range(doneFile')
                /\ pc = "count" => url \in Range(doneFile')
       /\ pc' = "discover"
             => \A u \in orphans : u \notin Range(doneFile) => u \notin done_urls'
       /\ (pc = "filter" /\ pc' = "loop")
             => \A u \in orphans \cap Range(articles) :
                   u \notin Range(doneFile)
                      => /\ u \in Range(remaining')
                         /\ max_articles = 0 => u \in Range(to_scrape')]_vars

\* C10 witness: a url whose earlier run was killed between output write and
\* marker flush is at the extraction again.
C10_Witness ==
    /\ pc = "scrape"
    /\ url \in orphans
    /\ url \notin Range(doneFile)

\* The new links of the fetches ps, in fetch order.
RECURSIVE Flatten(_)
Flatten(ps) == IF ps = <<>> THEN <<>> ELSE Head(ps).new \o Flatten(Tail(ps))

\* The distinct elements of s in the order of their first occurrence.
RECURSIVE FirstSeen(_)
FirstSeen(s) ==
    IF s = <<>> THEN <<>>
    ELSE LET r == FirstSeen(SubSeq(s, 1, Len(s) - 1))
         IN  IF s[Len(s)] \in Range(r) THEN r ELSE Append(r, s[Len(s)])

NoDuplicates(s) == \A j, k \in DOMAIN s : j # k => s[j] # s[k]

\* The k-th fetch of the discovery was made at offset 20 * (k - 1).
AscendingOffsets == \A k \in DOMAIN pages : pages[k].offset = PAGE_SIZE * (k - 1)

\* C11: the links accumulated by a discovery and the sequence it returns
\* hold no href twice and are what its fetches added, fetch after fetch in
\* the order of the offsets 0, 20, 40, ...; and a fetch extends the links
\* accumulated before it by the hrefs of some page that were not seen, in
\* the order of their first occurrence on the page.
C11_DistinctFirstSeenOrder ==
    /\ [](/\ NoDuplicates(all_links) /\ NoDuplicates(articles)
          /\ pc = "discover" => AscendingOffsets /\ all_links = Flatten(pages)
          /\ pc = "filter" => AscendingOffsets /\ articles = Flatten(pages))
    /\ [][(pc = "discover" /\ pc' \in {"discover", "filter"})
            => \E links \in PageLinks :
                  (IF pc' = "filter" THEN articles' ELSE all_links')
                      = FirstSeen(all_links \o links)]_vars

\* C11 witness: a discovery over two fetches has returned two links, one
\* from each.
C11_Witness ==
    /\ pc = "filter"
    /\ Len(pages) = 2
    /\ Len(pages[1].new) = 1 /\ Len(pages[2].new) = 1
    /\ articles = pages[1].new \o pages[2].new

\* The k-th fetched page had a next-page indicator and at least one new link.
Continues(k) == pages[k].has_next /\ pages[k].new # <<>>

\* C12: the discovery is about to fetch a page (the first, or the next)
\* exactly as long as every page fetched so far had a next-page indicator
\* and at least one new link; it has returned exactly when the last page
\* fetched is the first one without indicator or without new link, and then
\* it returns the new links of the pages fetched, fetched at offsets
\* 0, 20, 40, ...
C12_PaginationStops ==
    /\ pc = "discover"
          => /\ \A k \in DOMAIN pages : Continues(k)
             /\ offset = PAGE_SIZE * Len(pages)
             /\ articles = <<>>
    /\ pc = "filter"
          => /\ pages # <<>>
             /\ \A k \in 1..(Len(pages) - 1) : Continues(k)
             /\ ~Continues(Len(pages))
             /\ articles = Flatten(pages)
             /\ AscendingOffsets
    /\ PostFilter => pages = <<>>

\* C12 witness: page 3 had the indicator and no new link; the discovery
\* returned after 3 fetches with the two links of pages 1 and 2.
C12_Witness ==
    /\ pc = "filter"
    /\ Len(pages) = 3
    /\ pages[3].has_next /\ pages[3].new = <<>>
    /\ Len(articles) = 2
    /\ articles = Flatten(SubSeq(pages, 1, 2))

\* C18: a discovery never makes more fetches than the number of distinct
\* hrefs its pages served plus one, hence at most the number of hrefs the
\* site has plus one, whatever the pages say about a next page; while it
\* is going on, the fetches made do not exceed the hrefs seen.
C18_FetchesBounded ==
    /\ pc \in {"discover", "filter"}
          => /\ Len(pages) <= Cardinality(Range(Flatten(pages))) + 1
             /\ Len(pages) <= Cardinality(URLS) + 1
    /\ pc = "discover" => Len(pages) <= Cardinality(seen_hrefs)
    /\ seen_hrefs \subseteq URLS

\* C18 witness: every page reported a next page, and the discovery
\* returned after one fetch more than the distinct hrefs served.
C18_Witness ==
    /\ pc = "filter"
    /\ \A k \in DOMAIN pages : pages[k].has_next
    /\ Cardinality(Range(Flatten(pages))) = 2
    /\ Len(pages) = 3

\* The urls of the blocks of log, in log order (a block has one body or
\* placeholder line).
RECURSIVE BlockUrls(_)
BlockUrls(log) ==
    IF log = <<>> THEN <<>>
    ELSE (IF Head(log).kind \in {"body", "placeholder"} THEN <<Head(log).url>> ELSE <<>>)
         \o BlockUrls(Tail(log))

\* The markers the current run has written to the resume log: the run
\* commits no url of the set it loaded.
RunMarkers == SelectSeq(doneFile \o doneBuf, LAMBDA u : u \notin done_urls)

\* C13 as stated: whenever no candidate is between its output write and
\* its marker, the urls of the blocks of the output log (what is on disk
\* and what the run has written since) are the urls of the resume log, in
\* the same order.
C13_BlockOrderIsCommitOrder ==
    pc \notin {"commit", "flush"}
        => BlockUrls(outFile \o outBuf) = doneFile \o doneBuf

\* C13 amended: every step leaves what the two files hold on disk as a
\* prefix of what they hold afterwards; the blocks a run has written to the
\* output file are those of the markers it has written to the resume log,
\* in the same order, followed by the block of the candidate whose marker
\* is not yet written; and the close of the files at the end of the run
\* appends exactly these blocks to the output log.
C13_AppendOnlyRunOrder ==
    /\ [](pc \in {"loop", "scrape", "check", "commit", "flush", "count"}
            => BlockUrls(outBuf)
                 = RunMarkers \o (IF pc = "commit" THEN <<url>> ELSE <<>>))
    /\ [][/\ IsPrefix(outFile, outFile')
          /\ IsPrefix(doneFile, doneFile')
          /\ (pc = "loop" /\ pc' = "done")
                => BlockUrls(outFile') = BlockUrls(outFile) \o RunMarkers]_vars

\* C13 witness: a run has saved both of its two candidates.
C13_Witness ==
    /\ pc = "loop"
    /\ outcomes = <<"saved", "saved">>
    /\ BlockUrls(outBuf) = to_scrape
    /\ RunMarkers = to_scrape

\* C14: while a run is at the search, and when a fault has ended it there,
\* no candidate was handed to the extraction and nothing is written to
\* either file object; a step taken at the search leaves both files on
\* disk as they are and leads to the next fetch, to the return of the
\* result, to the abort or to the kill, never into the article loop; the
\* abort is reached from the search only, and only the start of a new run
\* follows it.
C14_DiscoveryFaultAborts ==
    /\ [](pc \in {"discover", "aborted"}
            => /\ attempted = <<>> /\ outcomes = <<>>
               /\ scraped = 0
               /\ outBuf = <<>> /\ doneBuf = <<>>)
    /\ [][/\ pc = "discover"
                => /\ pc' \in {"discover", "filter", "aborted", "killed"}
                   /\ outFile' = outFile /\ doneFile' = doneFile
          /\ pc' = "aborted" => pc = "discover"
          /\ pc = "aborted" => pc' = "discover"]_vars

\* C14 witness: a run over logs that an earlier run has filled was aborted
\* by a fault at the search.
C14_Witness ==
    /\ pc = "aborted"
    /\ doneFile # <<>> /\ outFile # <<>>
    /\ BlockUrls(outFile) = doneFile

\* C15: in a run the candidates attempted are the first i of the work
\* list, each once; each attempt but the one under way has ended in exactly
\* one of saved, blocked, error, and every candidate has when the run is
\* over; a saved url is in the resume log and a blocked or faulted one is
\* not, so that the filter of a later run that discovers it drops the one
\* and keeps the other.
C15_OneOutcomePerCandidate ==
    PostFilter =>
        /\ NoDuplicates(to_scrape)
        /\ attempted = SubSeq(to_scrape, 1, i)
        /\ Len(outcomes) = IF pc \in {"loop", "done"} THEN i ELSE i - 1
        /\ pc = "done" => Len(outcomes) = Len(to_scrape)
        /\ \A k \in DOMAIN outcomes :
              /\ outcomes[k] \in {"saved", "blocked", "error"}
              /\ outcomes[k] = "saved"
                    => /\ attempted[k] \in Range(doneFile)
                       /\ Remaining(<<attempted[k]>>, load_done_urls) = <<>>
              /\ outcomes[k] \in {"blocked", "error"}
                    => /\ attempted[k] \notin Range(doneFile) \cup Range(doneBuf)
                       /\ Remaining(<<attempted[k]>>, load_done_urls) = <<attempted[k]>>

\* C15 witness: a run over two candidates is over, the first was saved and
\* the second blocked.
C15_Witness ==
    /\ pc = "done"
    /\ Len(to_scrape) = 2
    /\ outcomes = <<"saved", "blocked">>
    /\ doneFile = <<to_scrape[1]>>

\* A two-digit group without its leading zero.
NoLeadingZero(ds) == IF ds[1] = "0" THEN <<ds[2]>> ELSE ds

\* D.M.YYYY of the groups a date pattern captured.
DMY(m) == NoLeadingZero(m.d) \o <<".">> \o NoLeadingZero(m.m) \o <<".">> \o m.y

\* The first publish-time element of the page has a content that starts
\* with YYYY-MM-DD.
MetaMatches == meta_date # <<>> /\ ~meta_date[1].null /\ meta_date[1].re.match

\* C16: for an accessible page the date returned is D.M.YYYY of the
\* publish-time attribute when that matches YYYY-MM-DD, else D.M.YYYY of
\* the /YYYY/MM/DD/ segment of the URL when there is one, else absent; day
\* and month carry no leading zero; the publish time
\* 2025-05-28T08:36:00+0000 and the URL segment /2025/05/28/ both give
\* 28.5.2025.
C16_DateExtraction ==
    (pc = "check" /\ ~Blocked(title_text)) =>
        /\ MetaMatches => date = DMY(meta_date[1].re)
        /\ (~MetaMatches /\ UrlDate(url).match) => date = DMY(UrlDate(url))
        /\ (~MetaMatches /\ ~UrlDate(url).match) => date = None
        /\ ((MetaMatches /\ url # "u1") \/ (~MetaMatches /\ url = "u3"))
              => date = <<"2", "8", ".", "5", ".", "2", "0", "2", "5">>
        /\ (MetaMatches /\ url = "u1")
              => date = <<"1", ".", "1", "2", ".", "2", "0", "2", "4">>

\* C16 witness: the page of u1, whose URL says 2025/05/28, states the
\* publish time 2024-12-01, and the date returned is 1.12.2024.
C16_Witness ==
    /\ pc = "check"
    /\ url = "u1"
    /\ MetaMatches
    /\ date = <<"1", ".", "1", "2", ".", "2", "0", "2", "4">>

\* The number of attempts of the run that ended with outcome o.
Count(o) == Cardinality({k \in DOMAIN outcomes : outcomes[k] = o})

\* C17: when a run is over, total is the length of its work list, every
\* candidate of which was attempted once; scraped is the number of markers
\* the run added to the resume log, which is the number of attempts that
\* ended saved; failed is the number of attempts that ended blocked or
\* with a fault.
C17_SummaryCounts ==
    pc = "done" =>
        /\ total = Len(to_scrape)
        /\ attempted = to_scrape /\ NoDuplicates(attempted)
        /\ scraped = Len(RunMarkers)
        /\ scraped = Count("saved")
        /\ failed = Count("blocked") + Count("error")
        /\ failed = total - Len(RunMarkers)

\* C17 witness: a run over two candidates is over, the first was blocked
\* and the second saved: 1 of 2 successful, 1 failed.
C17_Witness ==
    /\ pc = "done"
    /\ total = 2 /\ scraped = 1 /\ failed = 1
    /\ outcomes = <<"blocked", "saved">>

\* C19: no url is on two lines of the resume log, on disk or written to
\* it and not yet flushed.
C19_CommittedAtMostOnce == NoDuplicates(doneFile \o doneBuf)

\* C19 witness: a second run has added a marker to the marker an earlier
\* run had left in the resume log.
C19_Witness ==
    /\ pc = "done"
    /\ Len(doneFile) = 2
    /\ Cardinality(done_urls) = 1
    /\ scraped = 1

\* log holds a line written for u.
HasLine(log, u) == \E k \in DOMAIN log : log[k].url = u

\* C20: the step that ends an attempt with a fault of the extraction
\* leaves the output log and the resume log, on disk and in the file
\* objects, as they were when the candidate was taken up; nothing the run
\* has written to the output file is a line of a candidate that ended
\* with a fault, and no such candidate is in the resume log.
C20_FaultWritesNothing ==
    /\ [](\A k \in DOMAIN outcomes :
             outcomes[k] = "error"
                => /\ ~HasLine(outBuf, attempted[k])
                   /\ attempted[k] \notin Range(doneFile \o doneBuf))
    /\ [][/\ (pc = "loop" /\ pc' = "scrape")
                => UNCHANGED <<outFile, outBuf, doneFile, doneBuf>>
          /\ (pc = "scrape" /\ pc' = "loop")
                => /\ UNCHANGED <<outFile, outBuf, doneFile, doneBuf>>
                   /\ outcomes' = Append(outcomes, "error")
                   /\ scraped' = scraped]_vars

\* C20 witness: the first candidate of a run was saved, the extraction of
\* the second raised, and the run has written the record of the first and
\* nothing else.
C20_Witness ==
    /\ pc = "loop"
    /\ outcomes = <<"saved", "error">>
    /\ BlockUrls(outBuf) = <<to_scrape[1]>>
    /\ ~HasLine(outBuf, to_scrape[2])
    /\ doneFile = <<to_scrape[1]>>

====
